---- MODULE Spec2Model ----
(***************************************************************************)
(* A model of the otus_ml_basic exercises:                                 *)
(*   hw-5/main.py  MediaFile hierarchy, Storage backends, MediaFileFactory *)
(*   hw-6/base.py, hw-6/plane.py, hw-6/exceptions.py  Vehicle / Plane      *)
(*                                                                         *)
(* Python strings are sequences of one-character strings, so that          *)
(* str.split and str.endswith are computed and not assumed.  Dictionaries  *)
(* are functions from a finite set of keys to values; values are strings   *)
(* ("None" is Python's None).                                              *)
(***************************************************************************)
EXTENDS Integers, Sequences, FiniteSets, TLC

VARIABLES
    mf,                 \* the media file object the driver holds
    out,                \* the object returned by the last media call, or None
    weight,             \* Vehicle.weight
    started,            \* Vehicle.started
    fuel,               \* Vehicle.fuel
    fuel_consumption,   \* Vehicle.fuel_consumption
    cargo,              \* Plane.cargo
    max_cargo,          \* Plane.max_cargo
    accepted,           \* history: sum of the amounts load_cargo accepted since
                        \* construction or the last remove_all_cargo
    md0,                \* history: mf.metadata when the driver obtained mf
    hist,               \* history: the arguments of update_metadata on mf since
    call,               \* the last call: [op |-> name, arg |-> arguments]
    ret,                \* its return value: <<>> for None, <<v>> for v
    exc                 \* the exception it raised, "None" if it returned

vars == <<mf, out, weight, started, fuel, fuel_consumption, cargo, max_cargo,
          accepted, md0, hist, call, ret, exc>>

mediaVars == <<mf, out, md0, hist>>

vehicleVars == <<weight, started, fuel, fuel_consumption, cargo, max_cargo, accepted>>

-----------------------------------------------------------------------------
(* Python built-ins used by the code *)

\* str.endswith(suffix)
EndsWith(s, suffix) ==
    /\ Len(s) >= Len(suffix)
    /\ SubSeq(s, Len(s) - Len(suffix) + 1, Len(s)) = suffix

\* str.endswith((s1, s2, ...)): a tuple of suffixes
EndsWithAny(s, suffixes) == \E x \in suffixes : EndsWith(s, x)

\* the positions of separator c in s
Positions(s, c) == {i \in 1..Len(s) : s[i] = c}

Min(S) == CHOOSE x \in S : \A y \in S : x <= y

Max(S) == CHOOSE x \in S : \A y \in S : x >= y

\* s.split(c)[0]: the text before the first c, all of s when there is none
SplitFirst(s, c) ==
    IF Positions(s, c) = {} THEN s ELSE SubSeq(s, 1, Min(Positions(s, c)) - 1)

\* s.split(c)[-1]: the text after the last c, all of s when there is none
SplitLast(s, c) ==
    IF Positions(s, c) = {} THEN s ELSE SubSeq(s, Max(Positions(s, c)) + 1, Len(s))

\* the empty dict {}
EmptyDict == [k \in {} |-> "None"]

\* dict.update(m) as a value: keys of m overwrite, the other keys of d stay
DictUpdate(d, m) ==
    [k \in (DOMAIN d) \cup (DOMAIN m) |-> IF k \in DOMAIN m THEN m[k] ELSE d[k]]

\* d restricted to the keys in K
Restrict(d, K) == [k \in (DOMAIN d) \cap K |-> d[k]]

\* Python truth value of a scalar of the model: only None is falsy
Truthy(v) == v # "None"

-----------------------------------------------------------------------------
(* hw-5/main.py: the MediaFile hierarchy *)

\* no object (Python None, or nothing returned because the call raised)
None == [kind |-> "None"]

Raised(e) == [exc |-> e, obj |-> None]

Returned(o) == [exc |-> "None", obj |-> o]

AudioKeys == {"duration", "bitrate", "sample_rate", "channels"}

VideoKeys == {"duration", "resolution", "frame_rate", "codec"}

PhotoKeys == {"width", "height", "color_space", "camera_model"}

\* the keyword parameters of MediaFile.__init__ besides name and size
BaseKeys == {"created_at", "owner", "metadata"}

\* MediaFile.__init__(name, size, **kw) with a caller-supplied dict md for
\* metadata= (EmptyDict when absent: `metadata or {}` treats both alike).
\* kw holds the remaining keyword arguments, with scalar values; a keyword
\* that is no parameter is a TypeError.  A scalar passed as metadata= is
\* kept when truthy (the field md_ok records that self.metadata is a dict).
MediaFile_init(kind, name, size, md, kw) ==
    IF ~((DOMAIN kw) \subseteq BaseKeys)
    THEN Raised("TypeError")
    ELSE [exc |-> "None",
          md_ok |-> ~("metadata" \in DOMAIN kw /\ Truthy(kw["metadata"])),
          obj |-> [kind |-> kind,
                   name |-> name,
                   size |-> size,
                   created_at |-> IF "created_at" \in DOMAIN kw /\ Truthy(kw["created_at"])
                                  THEN kw["created_at"] ELSE "now",
                   owner |-> IF "owner" \in DOMAIN kw THEN kw["owner"] ELSE "None",
                   metadata |-> md]]

\* a constructor recording only the variant fields the caller passed
Variant_init_given(kind, keys, name, size, md, kw) ==
    LET base == MediaFile_init(kind, name, size, md, Restrict(kw, (DOMAIN kw) \ keys))
    IN  IF base.exc # "None" THEN Raised(base.exc)
        ELSE IF ~base.md_ok THEN Raised("AttributeError")
        ELSE Returned([base.obj EXCEPT
                          !.metadata = DictUpdate(base.obj.metadata, Restrict(kw, keys))])

\* The body shared by AudioFile/VideoFile/PhotoFile.__init__: the keywords
\* named by the variant bind to its parameters (default None), the others
\* go to MediaFile.__init__, then self.metadata.update({variant fields}).
Variant_init(kind, keys, name, size, md, kw) ==
    LET base == MediaFile_init(kind, name, size, md, Restrict(kw, (DOMAIN kw) \ keys))
        fields == [k \in keys |-> IF k \in DOMAIN kw THEN kw[k] ELSE "None"]
    IN  IF base.exc # "None" THEN Raised(base.exc)
        ELSE IF ~base.md_ok THEN Raised("AttributeError")
        ELSE Returned([base.obj EXCEPT !.metadata = DictUpdate(base.obj.metadata, fields)])

AudioFile_init(name, size, md, kw) == Variant_init("Audio", AudioKeys, name, size, md, kw)

VideoFile_init(name, size, md, kw) == Variant_init("Video", VideoKeys, name, size, md, kw)

PhotoFile_init(name, size, md, kw) == Variant_init("Photo", PhotoKeys, name, size, md, kw)

Dot == <<".">>

\* new_name = f"{self.name.split('.')[0]}.{target_format}"
ConvertedName(name, target_format) == SplitFirst(name, ".") \o Dot \o target_format

AudioFile_convert(self, target_format) ==
    AudioFile_init(ConvertedName(self.name, target_format), self.size, EmptyDict, self.metadata)

VideoFile_convert(self, target_format) ==
    VideoFile_init(ConvertedName(self.name, target_format), self.size, EmptyDict, self.metadata)

PhotoFile_convert(self, target_format) ==
    PhotoFile_init(ConvertedName(self.name, target_format), self.size, EmptyDict, self.metadata)

\* dispatch of self.convert on the object's class
convert(self, target_format) ==
    CASE self.kind = "Audio" -> AudioFile_convert(self, target_format)
      [] self.kind = "Video" -> VideoFile_convert(self, target_format)
      [] self.kind = "Photo" -> PhotoFile_convert(self, target_format)

FrameSize == 100000

\* VideoFile.extract_frame(timestamp); ts is the text of str(timestamp)
VideoFile_extract_frame(self, ts) ==
    PhotoFile_init(SplitFirst(self.name, ".") \o <<"_">> \o ts \o <<".", "j", "p", "g">>,
                   FrameSize, EmptyDict,
                   [k \in {"width", "height"} |-> IF k = "width" THEN "1920" ELSE "1080"])

\* PhotoFile.resize(width, height)
PhotoFile_resize(self, width, height) ==
    PhotoFile_init(SplitFirst(self.name, ".")
                     \o <<"_", "r", "e", "s", "i", "z", "e", "d", ".">>
                     \o SplitLast(self.name, "."),
                   self.size, EmptyDict,
                   [k \in {"width", "height"} |-> IF k = "width" THEN width ELSE height])

\* get_file_type()
get_file_type(self) == self.kind

\* extract_features(): the placeholder record's feature_type
extract_features(self) ==
    CASE self.kind = "Audio" -> "audio"
      [] self.kind = "Video" -> "video"
      [] self.kind = "Photo" -> "photo"

-----------------------------------------------------------------------------
(* hw-5/main.py: Storage backends and MediaFileFactory *)

AudioExts == {<<".", "m", "p", "3">>, <<".", "w", "a", "v">>, <<".", "f", "l", "a", "c">>}

VideoExts == {<<".", "m", "p", "4">>, <<".", "a", "v", "i">>, <<".", "m", "o", "v">>}

PhotoExts == {<<".", "j", "p", "g">>, <<".", "p", "n", "g">>, <<".", "g", "i", "f">>}

AudioLoadSize == 1000000

VideoLoadSize == 5000000

PhotoLoadSize == 500000

\* The storages keep their constructor parameters (provider, host, bucket,
\* ...) only to print them; no method reads them to decide anything, so a
\* storage is identified by its class.
Storages == {"LocalStorage", "CloudStorage", "RemoteStorage", "S3Storage"}

LocalStorage_load(path) ==
    IF EndsWithAny(path, AudioExts)
    THEN AudioFile_init(SplitLast(path, "/"), AudioLoadSize, EmptyDict, EmptyDict)
    ELSE IF EndsWithAny(path, VideoExts)
    THEN VideoFile_init(SplitLast(path, "/"), VideoLoadSize, EmptyDict, EmptyDict)
    ELSE IF EndsWithAny(path, PhotoExts)
    THEN PhotoFile_init(SplitLast(path, "/"), PhotoLoadSize, EmptyDict, EmptyDict)
    ELSE Raised("ValueError")

CloudStorage_load(path) ==
    IF EndsWithAny(path, AudioExts)
    THEN AudioFile_init(SplitLast(path, "/"), AudioLoadSize, EmptyDict, EmptyDict)
    ELSE IF EndsWithAny(path, VideoExts)
    THEN VideoFile_init(SplitLast(path, "/"), VideoLoadSize, EmptyDict, EmptyDict)
    ELSE IF EndsWithAny(path, PhotoExts)
    THEN PhotoFile_init(SplitLast(path, "/"), PhotoLoadSize, EmptyDict, EmptyDict)
    ELSE Raised("ValueError")

RemoteStorage_load(path) ==
    IF EndsWithAny(path, AudioExts)
    THEN AudioFile_init(SplitLast(path, "/"), AudioLoadSize, EmptyDict, EmptyDict)
    ELSE IF EndsWithAny(path, VideoExts)
    THEN VideoFile_init(SplitLast(path, "/"), VideoLoadSize, EmptyDict, EmptyDict)
    ELSE IF EndsWithAny(path, PhotoExts)
    THEN PhotoFile_init(SplitLast(path, "/"), PhotoLoadSize, EmptyDict, EmptyDict)
    ELSE Raised("ValueError")

S3Storage_load(path) ==
    IF EndsWithAny(path, AudioExts)
    THEN AudioFile_init(SplitLast(path, "/"), AudioLoadSize, EmptyDict, EmptyDict)
    ELSE IF EndsWithAny(path, VideoExts)
    THEN VideoFile_init(SplitLast(path, "/"), VideoLoadSize, EmptyDict, EmptyDict)
    ELSE IF EndsWithAny(path, PhotoExts)
    THEN PhotoFile_init(SplitLast(path, "/"), PhotoLoadSize, EmptyDict, EmptyDict)
    ELSE Raised("ValueError")

\* dispatch of storage.load on the storage's class
Storage_load(storage, path) ==
    CASE storage = "LocalStorage" -> LocalStorage_load(path)
      [] storage = "CloudStorage" -> CloudStorage_load(path)
      [] storage = "RemoteStorage" -> RemoteStorage_load(path)
      [] storage = "S3Storage" -> S3Storage_load(path)

\* list_files(directory): the fixed list of each storage
Storage_list_files(storage) ==
    CASE storage = "LocalStorage" -> <<"example1.mp3", "example2.mp4", "example3.jpg">>
      [] storage = "CloudStorage" ->
            <<"cloud_example1.mp3", "cloud_example2.mp4", "cloud_example3.jpg">>
      [] storage = "RemoteStorage" ->
            <<"remote_example1.mp3", "remote_example2.mp4", "remote_example3.jpg">>
      [] storage = "S3Storage" -> <<"s3_example1.mp3", "s3_example2.mp4", "s3_example3.jpg">>

\* create_from_path deciding by path.split(".")[-1] instead of endswith
create_from_path_by_split(path, size, kw) ==
    LET filename == SplitLast(path, "/")
        ext == Dot \o SplitLast(path, ".")
    IN  IF ext \in AudioExts THEN AudioFile_init(filename, size, EmptyDict, kw)
        ELSE IF ext \in VideoExts THEN VideoFile_init(filename, size, EmptyDict, kw)
        ELSE IF ext \in PhotoExts THEN PhotoFile_init(filename, size, EmptyDict, kw)
        ELSE Raised("ValueError")

\* MediaFileFactory.create_from_path(path, size, **kwargs)
create_from_path(path, size, kw) ==
    LET filename == SplitLast(path, "/")
    IN  IF EndsWithAny(path, AudioExts) THEN AudioFile_init(filename, size, EmptyDict, kw)
        ELSE IF EndsWithAny(path, VideoExts) THEN VideoFile_init(filename, size, EmptyDict, kw)
        ELSE IF EndsWithAny(path, PhotoExts) THEN PhotoFile_init(filename, size, EmptyDict, kw)
        ELSE Raised("ValueError")

-----------------------------------------------------------------------------
(* Inputs *)

\* the most update_metadata calls followed on one object
MaxUpdates == 2

\* the longest name of an object the driver goes on with
MaxNameLen == 18

Song == <<"s", "o", "n", "g">>

\* names given to the constructors: the driver's song.mp3, a name with two
\* dots and a name without extension
InitNames == {Song \o <<".", "m", "p", "3">>,
              <<"a", ".", "b", ".", "m", "p", "4">>,
              <<"r", "a", "w">>}

\* size of the driver's audio file
InitSize == 5000000

\* keyword arguments of the driver's constructor calls, per variant
DriverKw(kind) ==
    CASE kind = "Audio" -> [duration |-> "240", bitrate |-> "320", sample_rate |-> "44100",
                            channels |-> "2", owner |-> "John"]
      [] kind = "Video" -> [duration |-> "3600", resolution |-> "1920x1080",
                            frame_rate |-> "30", codec |-> "h264", owner |-> "Alice"]
      [] kind = "Photo" -> [width |-> "1920", height |-> "1080", color_space |-> "RGB",
                            camera_model |-> "Canon EOS", owner |-> "Bob"]

\* dicts passed as metadata= to a constructor
InitDicts == {EmptyDict, [genre |-> "Pop"]}

\* arguments of update_metadata: the driver's, one that overwrites a key of
\* the first and the duration field, one naming a constructor parameter
MetaArgs == {[genre |-> "Rock", artist |-> "Unknown"],
             [genre |-> "Jazz", duration |-> "7"],
             [owner |-> "Ann"]}

\* target formats of convert
Formats == {<<"w", "a", "v">>, <<"p", "n", "g">>}

\* str(timestamp) of extract_frame: an int and a float
Timestamps == {<<"7">>, <<"1", ".", "5">>}

Sizes == {1, 2}

Dir == <<"d", "/">>

DotDir == <<"d", ".", "m", "p", "3", "/">>

\* endings that are no supported extension: none, unknown, no dot, upper
\* case, truncated, extended, and a supported one followed by a slash
BadEndings == {<<>>, <<".", "t", "x", "t">>, <<"m", "p", "3">>, <<".", "M", "P", "3">>,
               <<".", "m", "p">>, <<".", "j", "p", "e", "g">>, <<".", "m", "p", "3", "/">>}

\* paths given to load and create_from_path
Paths ==
    {pre \o <<"a">> \o e : pre \in {<<>>, Dir}, e \in AudioExts \cup VideoExts \cup PhotoExts}
    \cup {<<"a", ".", "b">> \o e : e \in {<<".", "m", "p", "3">>, <<".", "m", "o", "v">>}}
    \cup {<<".", "m", "p", "3">>, <<".", "g", "i", "f">>, <<"m", "p", "3">>}
    \cup {pre \o <<"a">> \o e : pre \in {<<>>, DotDir}, e \in BadEndings}

\* the paths of the media specification: a supported one and an unsupported one
GoodPath == Dir \o <<"a", ".", "b", ".", "m", "o", "v">>

BadPath == <<"a", ".", "t", "x", "t">>

-----------------------------------------------------------------------------
(* hw-5/main.py: the calls, as actions *)

Called(op, arg) == call' = [op |-> op, arg |-> arg]

\* storage.load(path): the driver keeps the result in out
Load(storage, path) ==
    LET r == Storage_load(storage, path)
    IN  /\ Called("load", [storage |-> storage, path |-> path])
        /\ out' = r.obj
        /\ exc' = r.exc
        /\ ret' = <<>>
        /\ UNCHANGED <<mf, md0, hist>>
        /\ UNCHANGED vehicleVars

\* MediaFileFactory.create_from_path(path, size)
CreateFromPath(path, size) ==
    LET r == create_from_path(path, size, EmptyDict)
    IN  /\ Called("create_from_path", [path |-> path, size |-> size])
        /\ out' = r.obj
        /\ exc' = r.exc
        /\ ret' = <<>>
        /\ UNCHANGED <<mf, md0, hist>>
        /\ UNCHANGED vehicleVars

\* storage.save(mf, path), storage.delete(path): print and return True
Save(storage) ==
    /\ Called("save", storage)
    /\ out' = None
    /\ exc' = "None"
    /\ ret' = <<"True">>
    /\ UNCHANGED <<mf, md0, hist>>
    /\ UNCHANGED vehicleVars

Delete(storage) ==
    /\ Called("delete", storage)
    /\ out' = None
    /\ exc' = "None"
    /\ ret' = <<"True">>
    /\ UNCHANGED <<mf, md0, hist>>
    /\ UNCHANGED vehicleVars

\* storage.list_files(directory)
ListFiles(storage) ==
    /\ Called("list_files", storage)
    /\ out' = None
    /\ exc' = "None"
    /\ ret' = <<Storage_list_files(storage)>>
    /\ UNCHANGED <<mf, md0, hist>>
    /\ UNCHANGED vehicleVars

\* update_metadata keeping the old value of a key it already has
MediaFile_update_metadata_keep(self, metadata) ==
    [self EXCEPT !.metadata = DictUpdate(metadata, self.metadata)]

\* MediaFile.update_metadata(metadata) as a function of the object
MediaFile_update_metadata(self, metadata) ==
    [self EXCEPT !.metadata = DictUpdate(self.metadata, metadata)]

\* mf.update_metadata(m)
UpdateMetadata(m) ==
    /\ Len(hist) < MaxUpdates
    /\ Called("update_metadata", m)
    /\ mf' = MediaFile_update_metadata(mf, m)
    /\ hist' = Append(hist, m)
    /\ out' = None
    /\ exc' = "None"
    /\ ret' = <<>>
    /\ UNCHANGED md0
    /\ UNCHANGED vehicleVars

\* mf.convert(target_format)
Convert(target_format) ==
    LET r == convert(mf, target_format)
    IN  /\ Called("convert", target_format)
        /\ out' = r.obj
        /\ exc' = r.exc
        /\ ret' = <<>>
        /\ UNCHANGED <<mf, md0, hist>>
        /\ UNCHANGED vehicleVars

\* mf.get_file_type()
GetFileType ==
    /\ Called("get_file_type", <<>>)
    /\ out' = None
    /\ exc' = "None"
    /\ ret' = <<get_file_type(mf)>>
    /\ UNCHANGED <<mf, md0, hist>>
    /\ UNCHANGED vehicleVars

\* mf.extract_features()
ExtractFeatures ==
    /\ Called("extract_features", <<>>)
    /\ out' = None
    /\ exc' = "None"
    /\ ret' = <<extract_features(mf)>>
    /\ UNCHANGED <<mf, md0, hist>>
    /\ UNCHANGED vehicleVars

\* AudioFile.adjust_volume(level): prints, changes nothing
AdjustVolume ==
    /\ mf.kind = "Audio"
    /\ Called("adjust_volume", <<>>)
    /\ out' = None
    /\ exc' = "None"
    /\ ret' = <<>>
    /\ UNCHANGED <<mf, md0, hist>>
    /\ UNCHANGED vehicleVars

\* VideoFile.extract_frame(timestamp)
ExtractFrame(ts) ==
    LET r == VideoFile_extract_frame(mf, ts)
    IN  /\ mf.kind = "Video"
        /\ Called("extract_frame", ts)
        /\ out' = r.obj
        /\ exc' = r.exc
        /\ ret' = <<>>
        /\ UNCHANGED <<mf, md0, hist>>
        /\ UNCHANGED vehicleVars

\* PhotoFile.resize(width, height)
Resize(width, height) ==
    LET r == PhotoFile_resize(mf, width, height)
    IN  /\ mf.kind = "Photo"
        /\ Called("resize", <<width, height>>)
        /\ out' = r.obj
        /\ exc' = r.exc
        /\ ret' = <<>>
        /\ UNCHANGED <<mf, md0, hist>>
        /\ UNCHANGED vehicleVars

\* The driver goes on with the object the last call returned
\* (x = x.convert(...), x = storage.load(...)).
Use ==
    /\ out # None
    /\ Len(out.name) <= MaxNameLen
    /\ Called("use", <<>>)
    /\ mf' = out
    /\ md0' = out.metadata
    /\ hist' = <<>>
    /\ out' = None
    /\ exc' = "None"
    /\ ret' = <<>>
    /\ UNCHANGED vehicleVars

\* the dispatch of a constructor call on the class
Construct(kind, name, size, md, kw) ==
    CASE kind = "Audio" -> AudioFile_init(name, size, md, kw)
      [] kind = "Video" -> VideoFile_init(name, size, md, kw)
      [] kind = "Photo" -> PhotoFile_init(name, size, md, kw)

NoVehicle ==
    /\ weight = 0
    /\ started = FALSE
    /\ fuel = 0
    /\ fuel_consumption = 0
    /\ cargo = 0
    /\ max_cargo = 0
    /\ accepted = 0

\* a media file constructed directly, before any call
InitMedia ==
    /\ \E kind \in {"Audio", "Video", "Photo"}, name \in InitNames, md \in InitDicts :
        \E kw \in {EmptyDict, DriverKw(kind)} :
          LET r == Construct(kind, name, InitSize, md, kw)
          IN  /\ r.exc = "None"
              /\ mf = r.obj
              /\ md0 = r.obj.metadata
    /\ hist = <<>>
    /\ out = None
    /\ call = [op |-> "init", arg |-> <<>>]
    /\ ret = <<>>
    /\ exc = "None"
    /\ NoVehicle

ObjectCalls ==
    \/ \E m \in MetaArgs : UpdateMetadata(m)
    \/ \E f \in Formats : Convert(f)
    \/ GetFileType
    \/ ExtractFeatures
    \/ AdjustVolume
    \/ \E ts \in Timestamps : ExtractFrame(ts)
    \/ Resize("800", "600")
    \/ Use

\* the media file objects and what is made from them
NextMedia ==
    \/ ObjectCalls
    \/ \E s \in Storages : Load(s, GoodPath)
    \/ \E p \in {GoodPath, BadPath} : CreateFromPath(p, 1)

SpecMedia == InitMedia /\ [][NextMedia]_vars

\* the driver's three objects
InitStorage ==
    /\ InitMedia
    /\ mf.name = Song \o <<".", "m", "p", "3">>
    /\ mf.owner # "None"
    /\ "genre" \notin DOMAIN mf.metadata

\* the storages and the factory, over all the paths
NextStorage ==
    \/ \E s \in Storages, p \in Paths : Load(s, p)
    \/ \E p \in Paths, n \in Sizes : CreateFromPath(p, n)
    \/ \E s \in Storages : Save(s)
    \/ \E s \in Storages : Delete(s)
    \/ \E s \in Storages : ListFiles(s)

SpecStorage == InitStorage /\ [][NextStorage]_vars

-----------------------------------------------------------------------------
(* hw-6/base.py, hw-6/plane.py: Vehicle and Plane *)

\* the most fuel a move may leave (moves that give fuel back are cut there)
MaxFuel == 10

\* the most cargo below zero (negative amounts are cut there)
MaxUnload == 2

Weights == {0, 1}

InitFuels == {-1, 0, 1, MaxFuel}

Consumptions == {-1, 0, 2}

Distances == {-1, 0, 2, 4}

MaxCargos == {-1, 0, 100}

Amounts == {-1, 0, 50, 60}

\* start raising only on fuel == 0
StartRaises_zero(is_started, has_fuel) == ~is_started /\ has_fuel = 0

\* Vehicle.start raises: `if not self.started:` and not `if self.fuel > 0:`
StartRaises(is_started, has_fuel) == ~is_started /\ ~(has_fuel > 0)

\* fuel_needed = distance * self.fuel_consumption
FuelNeeded(distance, consumption) == distance * consumption

\* move comparing with > instead of >=
MoveAllowed_strict(has_fuel, fuel_needed) == has_fuel > fuel_needed

\* move asking only for some fuel
MoveAllowed_anyfuel(has_fuel, fuel_needed) == has_fuel > 0

\* if self.fuel >= fuel_needed
MoveAllowed(has_fuel, fuel_needed) == has_fuel >= fuel_needed

\* load_cargo comparing with < instead of <=
LoadAllowed_strict(has_cargo, amount, limit) == has_cargo + amount < limit

\* load_cargo checking the cargo held, not the cargo after loading
LoadAllowed_before(has_cargo, amount, limit) == has_cargo <= limit

\* if self.cargo + amount <= self.max_cargo
LoadAllowed(has_cargo, amount, limit) == has_cargo + amount <= limit

\* Vehicle.start()
Start ==
    /\ Called("start", <<>>)
    /\ IF StartRaises(started, fuel)
       THEN /\ exc' = "LowFuelError"
            /\ UNCHANGED started
       ELSE /\ exc' = "None"
            /\ started' = TRUE
    /\ ret' = <<>>
    /\ UNCHANGED <<weight, fuel, fuel_consumption, cargo, max_cargo, accepted>>
    /\ UNCHANGED mediaVars

\* move refusing to go before start()
Move_needs_start(distance) ==
    LET fuel_needed == FuelNeeded(distance, fuel_consumption)
    IN  /\ Called("move", distance)
        /\ IF started /\ MoveAllowed(fuel, fuel_needed)
           THEN /\ fuel - fuel_needed <= MaxFuel
                /\ fuel' = fuel - fuel_needed
                /\ exc' = "None"
           ELSE /\ exc' = "NotEnoughFuel"
                /\ UNCHANGED fuel
        /\ ret' = <<>>
        /\ UNCHANGED <<weight, started, fuel_consumption, cargo, max_cargo, accepted>>
        /\ UNCHANGED mediaVars

\* Vehicle.move(distance)
Move(distance) ==
    LET fuel_needed == FuelNeeded(distance, fuel_consumption)
    IN  /\ Called("move", distance)
        /\ IF MoveAllowed(fuel, fuel_needed)
           THEN /\ fuel - fuel_needed <= MaxFuel
                /\ fuel' = fuel - fuel_needed
                /\ exc' = "None"
           ELSE /\ exc' = "NotEnoughFuel"
                /\ UNCHANGED fuel
        /\ ret' = <<>>
        /\ UNCHANGED <<weight, started, fuel_consumption, cargo, max_cargo, accepted>>
        /\ UNCHANGED mediaVars

\* Plane.load_cargo(amount)
LoadCargo(amount) ==
    /\ Called("load_cargo", amount)
    /\ IF LoadAllowed(cargo, amount, max_cargo)
       THEN /\ cargo + amount >= -MaxUnload
            /\ cargo' = cargo + amount
            /\ accepted' = accepted + amount
            /\ exc' = "None"
       ELSE /\ exc' = "CargoOverload"
            /\ UNCHANGED <<cargo, accepted>>
    /\ ret' = <<>>
    /\ UNCHANGED <<weight, started, fuel, fuel_consumption, max_cargo>>
    /\ UNCHANGED mediaVars

\* remove_all_cargo resetting before it reads the value to return
RemoveAllCargo_reset_first ==
    /\ Called("remove_all_cargo", <<>>)
    /\ cargo' = 0
    /\ ret' = <<cargo'>>
    /\ accepted' = 0
    /\ exc' = "None"
    /\ UNCHANGED <<weight, started, fuel, fuel_consumption, max_cargo>>
    /\ UNCHANGED mediaVars

\* Plane.remove_all_cargo()
RemoveAllCargo ==
    /\ Called("remove_all_cargo", <<>>)
    /\ ret' = <<cargo>>
    /\ cargo' = 0
    /\ accepted' = 0
    /\ exc' = "None"
    /\ UNCHANGED <<weight, started, fuel, fuel_consumption, max_cargo>>
    /\ UNCHANGED mediaVars

\* Plane(weight, fuel, fuel_consumption, max_cargo): started and cargo keep
\* the class attributes False and 0
InitVehicle ==
    /\ weight \in Weights
    /\ fuel \in InitFuels
    /\ fuel_consumption \in Consumptions
    /\ max_cargo \in MaxCargos
    /\ started = FALSE
    /\ cargo = 0
    /\ accepted = 0
    /\ mf = None
    /\ out = None
    /\ md0 = EmptyDict
    /\ hist = <<>>
    /\ call = [op |-> "init", arg |-> <<>>]
    /\ ret = <<>>
    /\ exc = "None"

NextVehicle ==
    \/ Start
    \/ \E d \in Distances : Move(d)
    \/ \E a \in Amounts : LoadCargo(a)
    \/ RemoveAllCargo

SpecVehicle == InitVehicle /\ [][NextVehicle]_vars

-----------------------------------------------------------------------------
(* Properties of the storages and the factory *)

C1_AudioEndings == {<<".", "m", "p", "3">>, <<".", "w", "a", "v">>, <<".", "f", "l", "a", "c">>}

C1_VideoEndings == {<<".", "m", "p", "4">>, <<".", "a", "v", "i">>, <<".", "m", "o", "v">>}

C1_PhotoEndings == {<<".", "j", "p", "g">>, <<".", "p", "n", "g">>, <<".", "g", "i", "f">>}

\* the variant the ending of a path stands for, "None" for any other ending
C1_Kind(path) ==
    IF \E e \in C1_AudioEndings : EndsWith(path, e) THEN "Audio"
    ELSE IF \E e \in C1_VideoEndings : EndsWith(path, e) THEN "Video"
    ELSE IF \E e \in C1_PhotoEndings : EndsWith(path, e) THEN "Photo"
    ELSE "None"

\* C1: create_from_path(path, size) and load(path) of each of the four
\* storages return the variant the path's ending stands for (Audio for
\* .mp3/.wav/.flac, Video for .mp4/.avi/.mov, Photo for .jpg/.png/.gif), fail
\* with the unsupported-file-type error and return no object for any other
\* ending, and all five agree on every path.
C1_DispatchOnEnding ==
    call.op \in {"load", "create_from_path"} =>
        LET path == call.arg.path
            kind == C1_Kind(path)
        IN  /\ kind # "None" => exc = "None" /\ out.kind = kind
            /\ kind = "None" => exc = "ValueError" /\ out = None
            /\ \A s \in Storages :
                   /\ Storage_load(s, path).exc = exc
                   /\ Storage_load(s, path).obj.kind = out.kind
            /\ \A n \in Sizes :
                   /\ create_from_path(path, n, EmptyDict).exc = exc
                   /\ create_from_path(path, n, EmptyDict).obj.kind = out.kind

\* a storage loads an Audio file from a path ending in .flac under a directory
C1_Witness ==
    /\ call.op = "load"
    /\ call.arg.storage = "RemoteStorage"
    /\ call.arg.path = Dir \o <<"a", ".", "f", "l", "a", "c">>
    /\ out.kind = "Audio"
    /\ exc = "None"

-----------------------------------------------------------------------------
(* Properties of the media files *)

\* a name without its extension: the text before the last dot, the whole
\* name when it has no dot
C2_Stem(name) ==
    IF Positions(name, ".") = {} THEN name
    ELSE SubSeq(name, 1, Max(Positions(name, ".")) - 1)

\* C2: convert(fmt) on any media file returns a new file of the same variant
\* with the same size and the same metadata, whose name differs from the
\* original's only in the extension, which becomes fmt.
C2_ConvertPreserves ==
    call.op = "convert" =>
        /\ exc = "None"
        /\ out.kind = mf.kind
        /\ out.size = mf.size
        /\ out.metadata = mf.metadata
        /\ out.name = C2_Stem(mf.name) \o Dot \o call.arg

\* C3: no call raises, except load and create_from_path on a path with an
\* unsupported ending and the three Vehicle/Plane errors; in particular
\* convert returns after update_metadata has added keys.
C3_NothingElseRaises ==
    exc # "None" =>
        \/ /\ call.op \in {"load", "create_from_path"}
           /\ exc = "ValueError"
           /\ C1_Kind(call.arg.path) = "None"
        \/ /\ call.op = "start"
           /\ exc = "LowFuelError"
        \/ /\ call.op = "move"
           /\ exc = "NotEnoughFuel"
        \/ /\ call.op = "load_cargo"
           /\ exc = "CargoOverload"

\* the indices of the update_metadata arguments that have key k
C10_Setters(k) == {i \in 1..Len(hist) : k \in DOMAIN hist[i]}

\* the keys of all the update_metadata arguments
C10_ArgKeys == UNION {DOMAIN hist[i] : i \in 1..Len(hist)}

\* the metadata is the left-to-right merge of the arguments into the
\* metadata the object started with
C10_IsMergeOfArgs ==
    /\ DOMAIN mf.metadata = (DOMAIN md0) \cup C10_ArgKeys
    /\ \A k \in DOMAIN mf.metadata :
           mf.metadata[k] = IF C10_Setters(k) = {} THEN md0[k]
                            ELSE hist[Max(C10_Setters(k))][k]

\* one update_metadata(m): keys of m get m's values, the other keys keep
\* theirs, the keys are the old ones and those of m, the rest of the object
\* is as before
C10_Step ==
    call'.op = "update_metadata" =>
        LET m == call'.arg
        IN  /\ exc' = "None"
            /\ \A k \in DOMAIN m : mf'.metadata[k] = m[k]
            /\ \A k \in (DOMAIN mf.metadata) \ (DOMAIN m) :
                   /\ k \in DOMAIN mf'.metadata
                   /\ mf'.metadata[k] = mf.metadata[k]
            /\ DOMAIN mf'.metadata = (DOMAIN mf.metadata) \cup (DOMAIN m)
            /\ mf'.name = mf.name
            /\ mf'.size = mf.size
            /\ mf'.owner = mf.owner
            /\ mf'.kind = mf.kind
            /\ C10_IsMergeOfArgs'

\* C10: update_metadata(m) is a pure merge on the file's metadata: every key
\* of m maps to m's value, every other key keeps its value, no key is
\* removed, none appears from elsewhere, and name, size and owner are
\* unchanged; after any sequence of calls the metadata is the left-to-right
\* merge of the arguments.
C10_UpdateIsMerge == [][C10_Step]_vars

\* two updates that set the same key to different values, the later one
\* also overwriting a field the constructor set
C10_Witness ==
    /\ call.op = "update_metadata"
    /\ Len(hist) = 2
    /\ "genre" \in (DOMAIN hist[1]) \cap (DOMAIN hist[2])
    /\ hist[1]["genre"] # hist[2]["genre"]
    /\ "duration" \in (DOMAIN md0) \cap (DOMAIN hist[2])
    /\ md0["duration"] # hist[2]["duration"]
    /\ mf.metadata["genre"] = hist[2]["genre"]

-----------------------------------------------------------------------------
(* Properties of Vehicle and Plane *)

\* one start(): it raises LowFuelError exactly in the states `raises`, else
\* returns with started true, and changes nothing when it raises
C4_StartStep(raises) ==
    call'.op = "start" =>
        /\ (exc' # "None") <=> raises
        /\ exc' # "None" =>
               /\ exc' = "LowFuelError"
               /\ UNCHANGED <<started, fuel, weight, fuel_consumption>>
        /\ exc' = "None" =>
               /\ started' = TRUE
               /\ UNCHANGED <<fuel, weight, fuel_consumption>>

\* C4 as stated: start() raises LowFuelError exactly when fuel == 0 and
\* started == false, returns normally in every other state (setting started),
\* and changes nothing when it raises.
C4_RaisesOnZeroFuel == [][C4_StartStep(fuel = 0 /\ started = FALSE)]_vars

\* C4, amended: start() raises LowFuelError exactly when started == false and
\* fuel is not greater than 0 (zero or negative); in every other state it
\* returns normally with started true; when it raises, started, fuel, weight
\* and fuel_consumption are unchanged.
C4_RaisesOnNoFuel == [][C4_StartStep(~(fuel > 0) /\ started = FALSE)]_vars

\* start() raised on a vehicle constructed with negative fuel
C4_Witness ==
    /\ call.op = "start"
    /\ exc = "LowFuelError"
    /\ fuel < 0
    /\ started = FALSE

\* C5: move(distance) raises NotEnoughFuel and leaves fuel unchanged when
\* distance * fuel_consumption > fuel; otherwise it returns normally and the
\* new fuel is the old fuel minus exactly distance * fuel_consumption.
C5_MoveSubtractsExactly ==
    [][call'.op = "move" =>
        LET needed == call'.arg * fuel_consumption
        IN  /\ needed > fuel => exc' = "NotEnoughFuel" /\ fuel' = fuel
            /\ needed <= fuel => exc' = "None" /\ fuel' = fuel - needed
            /\ fuel_consumption' = fuel_consumption]_vars

\* the documented example: with consumption 2 and 2 units of fuel left, move(2) fails
C5_Witness ==
    /\ call.op = "move"
    /\ call.arg = 2
    /\ fuel_consumption = 2
    /\ fuel = 2
    /\ exc = "NotEnoughFuel"

\* C6: load_cargo(amount) raises CargoOverload exactly when
\* cargo + amount > max_cargo, leaving cargo unchanged; otherwise it returns
\* normally and cargo increases by exactly amount.
C6_LoadChecksLimit ==
    [][call'.op = "load_cargo" =>
        LET amount == call'.arg
        IN  /\ (exc' # "None") <=> (cargo + amount > max_cargo)
            /\ exc' # "None" => exc' = "CargoOverload" /\ cargo' = cargo
            /\ exc' = "None" => cargo' = cargo + amount
            /\ max_cargo' = max_cargo]_vars

\* the documented example: max_cargo 100, 60 loaded, load_cargo(50) fails
C6_Witness ==
    /\ call.op = "load_cargo"
    /\ call.arg = 50
    /\ max_cargo = 100
    /\ cargo = 60
    /\ exc = "CargoOverload"

\* C7: remove_all_cargo() never fails, returns the cargo held before the call,
\* which is the sum of the amounts load_cargo accepted since construction or
\* the last remove_all_cargo, leaves cargo 0, returns 0 when it directly
\* follows another remove_all_cargo, and leaves max_cargo, fuel and started
\* unchanged.
C7_RemoveReturnsPrior ==
    [][call'.op = "remove_all_cargo" =>
        /\ exc' = "None"
        /\ ret' = <<cargo>>
        /\ cargo = accepted
        /\ cargo' = 0
        /\ call.op = "remove_all_cargo" => ret' = <<0>>
        /\ UNCHANGED <<max_cargo, fuel, started>>]_vars

\* the documented example: remove_all_cargo() after load_cargo(60) returns 60
C7_Witness ==
    /\ call.op = "remove_all_cargo"
    /\ ret = <<60>>
    /\ cargo = 0
    /\ max_cargo = 100

\* C8 as stated: cargo never exceeds max_cargo, for any max_cargo.
C8_CargoWithinAnyLimit == cargo <= max_cargo

\* C8, amended: for a Plane constructed with max_cargo >= 0, cargo <= max_cargo
\* holds in every state reachable by load_cargo (any amount, zero and
\* negative included) and remove_all_cargo, whether the calls succeed or fail.
C8_CargoWithinLimit == max_cargo >= 0 => cargo <= max_cargo

\* the plane is full and a further load_cargo was refused
C8_Witness ==
    /\ call.op = "load_cargo"
    /\ exc = "CargoOverload"
    /\ max_cargo > 0
    /\ cargo = max_cargo

\* C9: fuel that is not negative stays so under start and move, for any
\* distance and any fuel_consumption, whether the call succeeds or fails; so
\* a vehicle constructed with fuel >= 0 never has negative fuel.
C9_FuelStaysNonNegative == [][fuel >= 0 => fuel' >= 0]_vars

\* a move that used up all the fuel
C9_Witness ==
    /\ call.op = "move"
    /\ exc = "None"
    /\ call.arg * fuel_consumption > 0
    /\ fuel = 0

-----------------------------------------------------------------------------
(* The variant-specific metadata keys *)

\* the metadata keys of each variant
C11_Keys(kind) ==
    CASE kind = "Audio" -> {"duration", "bitrate", "sample_rate", "channels"}
      [] kind = "Video" -> {"duration", "resolution", "frame_rate", "codec"}
      [] kind = "Photo" -> {"width", "height", "color_space", "camera_model"}

C11_HasKeys(file) == C11_Keys(file.kind) \subseteq DOMAIN file.metadata

\* C11: the metadata of every media file contains the keys of its variant,
\* possibly with None values: the object the driver holds (constructed
\* directly, or returned by the factory, a storage load, convert,
\* extract_frame or resize, and after any update_metadata calls), and every
\* object a call returns.
C11_VariantKeysPresent ==
    /\ C11_HasKeys(mf)
    /\ out # None => C11_HasKeys(out)

\* resize, on a loaded or made photo that was updated before, returned a
\* photo whose color_space and camera_model are present with value None
C11_Witness ==
    /\ call.op = "resize"
    /\ hist # <<>>
    /\ out # None
    /\ out.kind = "Photo"
    /\ out.metadata["color_space"] = "None"
    /\ out.metadata["camera_model"] = "None"
    /\ out.metadata["width"] = "800"

-----------------------------------------------------------------------------
(* The started flag *)

\* what move(distance) does, told from fuel, fuel_consumption and distance
\* alone: whether it raises, and the fuel it leaves
C12_MoveOutcome(has_fuel, consumption, distance) ==
    IF distance * consumption > has_fuel
    THEN [exc |-> "NotEnoughFuel", fuel |-> has_fuel]
    ELSE [exc |-> "None", fuel |-> has_fuel - distance * consumption]

C12_Step ==
    /\ call'.op = "move" =>
           /\ [exc |-> exc', fuel |-> fuel'] = C12_MoveOutcome(fuel, fuel_consumption, call'.arg)
           /\ started' = started
    /\ call'.op \in {"load_cargo", "remove_all_cargo"} => started' = started
    /\ started => started'

\* C12: move neither reads nor changes started: whether it raises and the
\* fuel it leaves depend on fuel, fuel_consumption and distance only, the
\* same for a started and a never-started vehicle; move, load_cargo and
\* remove_all_cargo leave started unchanged; once started is true it stays
\* true in every later state, also when fuel has dropped to 0.
C12_MoveIgnoresStarted == [][C12_Step]_vars

\* a vehicle that was never started moved and used fuel
C12_Witness ==
    /\ call.op = "move"
    /\ exc = "None"
    /\ started = FALSE
    /\ call.arg * fuel_consumption > 0

\* a started vehicle has run out of fuel and is still started
C12_StartedWithoutFuel ==
    /\ started = TRUE
    /\ fuel = 0
    /\ call.op = "move"
    /\ exc = "None"
    /\ call.arg * fuel_consumption > 0

====
